---------------------------- MODULE Spec2Model ----------------------------
(* State-machine model of servidor-tuya-express.js: the shared session      *)
(* token, the token exchange (getToken), the request signer                 *)
(* (getRequestSign), the device gateway (controlDevice, getDeviceInfo),     *)
(* the route handlers that call them, the refresh timer and startServer.    *)
(*                                                                          *)
(* Every async function is cut at its awaits: the code between two awaits   *)
(* runs to completion as one action, and at an await any other pending      *)
(* continuation may run before this one resumes.                            *)
EXTENDS Integers, Sequences, FiniteSets, Bags, TLC

(* ------------------------------ bounds --------------------------------- *)

\* number of callbacks (route handlers, timer callbacks) that can be in
\* flight at once
MaxInv == 2
\* number of distinct access tokens the provider hands out
MaxTok == 2
\* Date.now() returns a value in 0..MaxTime
MaxTime == 1
\* query keys are 1..MaxKey: names in their sort order ("a" < "b" < ...),
\* none of them integer-like or bracketed
MaxKey == 2
\* query values are 1..MaxVal
MaxVal == 2
\* number of key=value pairs in the query string of a path
MaxQuery == 2

(* ------------------------- program constants --------------------------- *)

\* let token = ''  (the falsy "no token" value)
NoToken == 0
\* brightness range, /device/brightness
BrightMin == 10
BrightMax == 1000
\* HSV ranges, /device/color/hsv
HMax == 360
SMax == 1000
VMax == 1000

Tokens == 1..MaxTok
Times == 0..MaxTime
Keys == 1..MaxKey
Vals == 1..MaxVal

(* ------------------------------ inputs --------------------------------- *)

\* a JSON body field: absent (undefined after destructuring) or a number
Absent == [present |-> FALSE, value |-> 0]
Num(n) == [present |-> TRUE, value |-> n]

BrightnessInputs ==
    {Absent} \cup {Num(b) : b \in {BrightMin - 1, BrightMin, BrightMax + 1}}

HsvGood == [h |-> Num(HMax), s |-> Num(SMax), v |-> Num(VMax)]
HsvInputs ==
    {HsvGood}
    \cup {[HsvGood EXCEPT !.h = x] : x \in {Absent, Num(-1), Num(HMax + 1)}}
    \cup {[HsvGood EXCEPT !.s = x] : x \in {Absent, Num(-1), Num(SMax + 1)}}
    \cup {[HsvGood EXCEPT !.v = x] : x \in {Absent, Num(-1), Num(VMax + 1)}}

\* the colour a /device/color/preset request names: a preset name in lower
\* or upper case, another word, or nothing
ColorInputs ==
    {"red", "green", "blue", "yellow", "purple", "cyan", "orange", "pink",
     "white", "RED", "teal", ""}

\* the text after '?' in a path: key=value pairs joined by '&', keys may
\* repeat; <<>> when the path has no '?'
PathQueries == UNION {[1..n -> Keys \X Vals] : n \in 0..MaxQuery}

\* the query argument of getRequestSign: a plain object with string values
\* (a value is held as a one-element sequence, see qsParse)
Queries == UNION {[K -> {<<v>> : v \in Vals}] : K \in SUBSET Keys}

\* process.env: each credential is set or missing ("" stands for undefined / '')
Configs == [accessKey : {"", "AK"}, secretKey : {"", "SK"}, deviceId : {"", "dev"}]

(* ------------------------------- state --------------------------------- *)

VARIABLES
    config,   \* the config object (lines 18-23)
    token,    \* the module-level token (line 45)
    phase,    \* "boot" | "starting" | "listening" | "exited"
    inv       \* the bag of invocations: those in flight, each at one of its
              \* awaits, and the latest finished ones

vars == <<config, token, phase, inv>>

\* the empty object {} passed as body by getDeviceInfo (line 165)
NoBody == [code |-> "", value |-> <<>>]

(* ------------------------------ signer --------------------------------- *)

\* crypto.createHash('sha256').update(x).digest('hex'): an injective digest
Sha256(x) == <<"sha256", x>>

\* JSON.stringify(body): "{}" for the empty object, else the commands text
JsonStringify(body) ==
    IF body.code = "" THEN "{}"
    ELSE <<"{\"commands\":[{\"code\":", body.code, ",\"value\":", body.value, "}]}">>

\* encryptStr: HMAC-SHA256 of str under secret, hex, upper case
encryptStr(str, secret) == <<"HMAC-SHA256", secret, str>>

\* getToken line 58: contentHash, the digest of the empty string
TokenContentHash == Sha256("")

\* the payload built the way getRequestSign builds it, the module-level
\* token between the key and the timestamp
TokenSignStr_WithToken(cfg, timestamp) ==
    <<cfg.accessKey, token, timestamp,
      <<"GET", Sha256(""), "", "/v1.0/token?grant_type=1">>>>

\* getToken, lines 55-60: the payload signed for the token exchange
TokenSignStr(cfg, timestamp) ==
    <<cfg.accessKey, timestamp,
      <<"GET", TokenContentHash, "", "/v1.0/token?grant_type=1">>>>

\* getToken, lines 62-67: the headers of the token exchange
TokenHeaders(cfg, timestamp) ==
    [t |-> timestamp, sign_method |-> "HMAC-SHA256", client_id |-> cfg.accessKey,
     sign |-> encryptStr(TokenSignStr(cfg, timestamp), cfg.secretKey)]

\* qs.parse(pathQuery), line 93: an object with one property per key; a key
\* that occurs once holds its value, a key that occurs several times holds
\* the array of its values in the order they occur.  A value is modelled as
\* the sequence of these values (length 1: a plain string).
qsParse(pathQuery) ==
    [k \in {pathQuery[i][1] : i \in DOMAIN pathQuery} |->
        LET occ == SelectSeq(pathQuery, LAMBDA p : p[1] = k)
        IN  [i \in DOMAIN occ |-> occ[i][2]]]

\* Object.assign(target, source): the properties of source are written over
\* those of target
ObjectAssign(target, source) ==
    [k \in DOMAIN target \cup DOMAIN source |->
        IF k \in DOMAIN source THEN source[k] ELSE target[k]]

\* getRequestSign line 93: queryMerged
QueryMerged(query, pathQuery) == ObjectAssign(query, qsParse(pathQuery))

\* Object.keys(queryMerged).sort(), lines 96-97
RECURSIVE SortKeys(_)
SortKeys(K) ==
    IF K = {} THEN <<>>
    ELSE LET k == CHOOSE x \in K : \A y \in K : x <= y
         IN  <<k>> \o SortKeys(K \ {k})

\* decodeURIComponent(qs.stringify(o)) for one property: key=value for a
\* string, key[0]=v0&key[1]=v1... for an array
StringifyProperty(k, val) ==
    IF Len(val) = 1 THEN << <<k, "=", val[1]>> >>
    ELSE [i \in DOMAIN val |-> <<k, "[", i - 1, "]=", val[i]>>]

\* getRequestSign lines 94-100: the properties are copied to sortedQuery in
\* the order of the sorted keys and stringified in that order
RECURSIVE StringifyInOrder(_, _)
StringifyInOrder(o, keys) ==
    IF keys = <<>> THEN <<>>
    ELSE StringifyProperty(keys[1], o[keys[1]]) \o StringifyInOrder(o, Tail(keys))

QueryString(queryMerged) ==
    StringifyInOrder(queryMerged, SortKeys(DOMAIN queryMerged))

\* getRequestSign line 101: url, as the sequence of its pieces
SignUrl(uri, querystring) ==
    IF querystring # <<>> THEN <<uri, "?", querystring>> ELSE <<uri>>

\* getRequestSign line 102: contentHash
ContentHash(body) == Sha256(JsonStringify(body))

\* getRequestSign, lines 103-104: the payload signed for a call to url, with
\* the token read at line 104
RequestSignStr(cfg, tok, t, method, url, body) ==
    <<cfg.accessKey, tok, t, <<method, ContentHash(body), "", url>>>>

\* the token concatenated into a signature payload (its second component)
PayloadToken(signStr) == signStr[2]

\* getRequestSign, lines 106-113: the headers it returns for invocation r;
\* r.signTok is the token read at line 104, r.hdrTok the one read at line 112,
\* t the value Date.now() returned at line 91
RequestHeaders(cfg, r, t) ==
    [t |-> t, path |-> r.url, client_id |-> cfg.accessKey,
     sign |-> encryptStr(RequestSignStr(cfg, r.signTok, t, r.method, r.url, r.body),
                         cfg.secretKey),
     sign_method |-> "HMAC-SHA256", access_token |-> r.hdrTok]

(* --------------------------- decisions --------------------------------- *)

\* validateConfig without the check of TUYA_DEVICE_ID
validateConfig_NoDeviceId(cfg) ==
    ~(cfg.accessKey = "" \/ cfg.secretKey = "")

\* validateConfig, lines 26-43
validateConfig(cfg) ==
    ~(cfg.accessKey = "" \/ cfg.secretKey = "" \/ cfg.deviceId = "")

\* the token check left out: every device operation runs the exchange first
NeedsToken_Always(tok) == TRUE

\* the exchange is skipped when another one is already in flight
NeedsToken_Dedup(tok) ==
    tok = NoToken /\ \A q \in BagToSet(inv) : q.pc \notin {"gt_hmac", "gt_wait"}

\* controlDevice line 120, getDeviceInfo line 159: if (!token)
NeedsToken(tok) == tok = NoToken

\* replies of the token endpoint as axios delivers them
LoginReply(net, has, success, tok) ==
    [net |-> net, has |-> has, success |-> success, access_token |-> tok]
LoginReplies ==
    {LoginReply(FALSE, FALSE, FALSE, NoToken),
     LoginReply(TRUE, FALSE, FALSE, NoToken),
     LoginReply(TRUE, TRUE, FALSE, NoToken)}
    \cup {LoginReply(TRUE, TRUE, TRUE, k) : k \in Tokens}

\* getToken lines 69-73: the await returned and the envelope passed the check
LoginOk(login) == login.net /\ login.has /\ login.success

\* token = token || login.result.access_token: a held token is kept
TokenAfterLogin_KeepHeld(cur, login) ==
    IF LoginOk(login) /\ cur = NoToken THEN login.access_token ELSE cur

\* the held token dropped when the exchange fails
TokenAfterLogin_ClearOnFailure(cur, login) ==
    IF LoginOk(login) THEN login.access_token ELSE NoToken

\* the assignment moved above the check of the envelope
TokenAfterLogin_Unchecked(cur, login) ==
    IF login.net THEN login.access_token ELSE cur

\* the provider numbers its tokens in the order it issues them, and an older
\* one never replaces a newer one
TokenAfterLogin_NewestOnly(cur, login) ==
    IF LoginOk(login) /\ login.access_token >= cur THEN login.access_token ELSE cur

\* getToken line 75: the token after the reply has been handled
TokenAfterLogin(cur, login) ==
    IF LoginOk(login) THEN login.access_token ELSE cur

\* the catch block of getToken without its throw: the error is swallowed
getTokenRejects_Swallowed(login) == FALSE

\* getToken lines 72 and 78-81: the promise getToken returns rejects
getTokenRejects(login) == ~LoginOk(login)

\* a rejection of the timer's getToken is not caught: the process dies
ProcessExits_TimerToo(op, rejected) ==
    op \in {"startServer", "timer"} /\ rejected

\* startServer never gives up: a failed initial getToken is only logged
ProcessExits_Never(op, rejected) == FALSE

\* what a rejection of getToken does to the process: startServer calls
\* process.exit(1) (lines 563-566); the timer's callback (574-576) and the
\* routes catch it and go on
ProcessExits(op, rejected) == op = "startServer" /\ rejected

\* replies of the device endpoints
DeviceReply(net, has, success) == [net |-> net, has |-> has, success |-> success]
DeviceReplies ==
    {DeviceReply(FALSE, FALSE, FALSE), DeviceReply(TRUE, FALSE, FALSE),
     DeviceReply(TRUE, TRUE, FALSE), DeviceReply(TRUE, TRUE, TRUE)}

\* if (!data) only: the success flag of the envelope is not looked at
DeviceOk_IgnoreFlag(data) == data.net /\ data.has

\* controlDevice lines 137-149, getDeviceInfo lines 167-178: data is returned
DeviceOk(data) == data.net /\ data.has /\ data.success

\* the range check without its upper limit
BrightnessRejected_NoUpper(b) ==
    ~b.present \/ b.value < BrightMin

\* /device/brightness lines 373-386: the request is answered 400
BrightnessRejected(b) ==
    ~b.present \/ b.value < BrightMin \/ b.value > BrightMax

\* what the body of a brightness request holds, by the range the route
\* documents: 'Parametro brightness (10-1000) es requerido' (line 376)
BrightnessInput(b) ==
    IF ~b.present THEN "missing"
    ELSE IF b.value \in 10..1000 THEN "inrange" ELSE "outside"

\* the range check with v compared to nothing
HsvRejected_NoValueCheck(h, s, v) ==
    \/ ~h.present \/ ~s.present \/ ~v.present
    \/ h.value < 0 \/ h.value > HMax
    \/ s.value < 0 \/ s.value > SMax

\* /device/color/hsv lines 332-345: the request is answered 400
HsvRejected(h, s, v) ==
    \/ ~h.present \/ ~s.present \/ ~v.present
    \/ h.value < 0 \/ h.value > HMax
    \/ s.value < 0 \/ s.value > SMax
    \/ v.value < 0 \/ v.value > VMax

\* /device/color/preset lines 484-494: presetColors
presetColors ==
    [red    |-> [h |-> 0,   s |-> 1000, v |-> 1000],
     green  |-> [h |-> 120, s |-> 1000, v |-> 1000],
     blue   |-> [h |-> 240, s |-> 1000, v |-> 1000],
     yellow |-> [h |-> 60,  s |-> 1000, v |-> 1000],
     purple |-> [h |-> 300, s |-> 1000, v |-> 1000],
     cyan   |-> [h |-> 180, s |-> 1000, v |-> 1000],
     orange |-> [h |-> 30,  s |-> 1000, v |-> 1000],
     pink   |-> [h |-> 330, s |-> 700,  v |-> 1000],
     white  |-> [h |-> 0,   s |-> 0,    v |-> 1000]]

\* color.toLowerCase() on the inputs
toLowerCase(color) == IF color = "RED" THEN "red" ELSE color

\* /device/color/preset line 496: the request is answered 400
PresetRejected(color) ==
    color = "" \/ toLowerCase(color) \notin DOMAIN presetColors

\* colorData with s and v taken from each other's entry
colorData_Swapped(color) ==
    LET d == presetColors[toLowerCase(color)] IN <<d.h, d.v, d.s>>

\* /device/color/preset line 503: colorData, the object {h, s, v} passed on
\* as the value of the command
colorData(color) ==
    LET d == presetColors[toLowerCase(color)] IN <<d.h, d.s, d.v>>

\* /device/color/hsv lines 347-351: the object {h, s, v} passed on as the
\* value of the command; the inputs are integers, on which Math.round
\* changes nothing
HsvValue(c) == <<c.h.value, c.s.value, c.v.value>>

\* the HSV requests that carry the values of the presets
PresetHsvInputs ==
    {[h |-> Num(presetColors[n].h), s |-> Num(presetColors[n].s),
      v |-> Num(presetColors[n].v)] : n \in DOMAIN presetColors}

\* what the body of an HSV request holds, by the ranges the route documents:
\* 'h (0-360), s (0-1000), v (0-1000) son requeridos' (line 335)
HsvInput(h, s, v) ==
    IF ~h.present \/ ~s.present \/ ~v.present THEN "missing"
    ELSE IF h.value \in 0..360 /\ s.value \in 0..1000 /\ v.value \in 0..1000
         THEN "inrange" ELSE "outside"

(* ---------------------------- invocations ------------------------------ *)

\* An invocation that has done nothing yet.  op is what was invoked
\* ("startServer", "timer", or a route); pc is the await it is suspended at:
\*   "gt_hmac"   getToken line 66, await encryptStr
\*   "gt_wait"   getToken line 69, await httpClient.get
\*   "ss_resume" startServer line 544, await getToken() resolved
\*   "cd_resume" controlDevice line 121 / getDeviceInfo line 160, resolved
\*   "rs_hmac"   getRequestSign line 110, await encryptStr
\*   "cd_wait"   controlDevice line 137 / getDeviceInfo line 167
\*   "done"      returned or threw; its locals are gone
\* input is what the request body held for the route: "inrange", "outside"
\* (a number outside the documented range) or "missing", and "" for a route
\* without parameters; arg is the colour asked for (a preset name or an
\* <<h, s, v>>).  method, uri, pathQuery, query, body are the arguments of
\* getRequestSign (path = uri?pathQuery), url the canonical path it builds;
\* signTok and hdrTok the two reads of token in getRequestSign (line 104,
\* line 112).  The remaining fields record what the invocation did: whether
\* token was held when controlDevice / getDeviceInfo was entered, the calls
\* to /v1.0/token and to /v1.0/devices/... it issued, the signatures it
\* computed, how its getToken ended, the device reply, the outcome; and for
\* a getToken called by startServer, the timer or /token/refresh: t0, the
\* token held when it started (Late when another getToken was in flight at
\* that moment), and over, whether token was no longer t0 when it assigned.
New ==
    [op |-> "", pc |-> "", input |-> "", arg |-> <<>>,
     method |-> "", uri |-> <<>>, pathQuery |-> <<>>, query |-> <<>>,
     body |-> NoBody, url |-> <<>>,
     signTok |-> NoToken, hdrTok |-> NoToken,
     hadTok |-> FALSE, nTok |-> 0, nDev |-> 0, nSign |-> 0,
     gt |-> "", t0 |-> NoToken, over |-> FALSE,
     answer |-> DeviceReply(FALSE, FALSE, FALSE), result |-> ""]

\* t0 of a getToken that started while another getToken was in flight
Late == 0 - 1

RouteOps == {"refresh", "info", "brightness", "hsv", "preset"}
DeviceOps == {"info", "brightness", "hsv", "preset"}
\* the callers of getToken that do nothing else
TokenOps == {"startServer", "timer", "refresh"}

\* the process is running (not before startServer, not after process.exit)
Alive == phase \in {"starting", "listening"}

Invs == BagToSet(inv)
Only(S) == SetToBag({S})

\* the invocations of S, with their multiplicity in the bag
Sub(S) == [r \in S |-> inv[r]]

IsInFlight(r) == r.pc # "done"
IsCallback(r) == r.op \in RouteOps \cup {"timer"}
IsTimer(r) == r.op = "timer"

\* the invocations suspended at an await
InFlight == Sub({r \in Invs : IsInFlight(r)})
\* the callbacks, all and suspended
Callbacks == Sub({r \in Invs : IsCallback(r)})
CallbacksInFlight == Sub({r \in Invs : IsCallback(r) /\ IsInFlight(r)})

\* the function has returned or thrown: its locals are dropped
Finish(r, result) ==
    [r EXCEPT !.pc = "done", !.result = result, !.arg = <<>>,
              !.method = "", !.uri = <<>>, !.pathQuery = <<>>, !.query = <<>>,
              !.body = NoBody, !.url = <<>>,
              !.signTok = NoToken, !.hdrTok = NoToken]

\* a getToken is between its call and the handling of its reply
InGetToken(r) == r.pc \in {"gt_hmac", "gt_wait"}

\* getToken lines 54-66, up to the await of encryptStr
getTokenBegin(r) ==
    [r EXCEPT !.pc = "gt_hmac", !.nSign = @ + 1, !.gt = "pending",
              !.t0 = IF r.op \notin TokenOps THEN NoToken
                     ELSE IF \E q \in Invs : InGetToken(q) THEN Late ELSE token]

\* getRequestSign lines 91-110, up to the await of encryptStr
getRequestSignBegin(r) ==
    [r EXCEPT !.pc = "rs_hmac",
              !.url = SignUrl(r.uri, QueryString(QueryMerged(r.query, r.pathQuery))),
              !.signTok = token, !.nSign = @ + 1]

\* controlDevice lines 118-135, up to its first await
controlDevice(r, deviceId, command, value) ==
    LET c == [r EXCEPT !.method = "POST",
                       !.uri = <<"/v1.0/devices/", deviceId, "/commands">>,
                       !.body = [code |-> command, value |-> value],
                       !.hadTok = (token # NoToken)]
    IN  IF NeedsToken(token) THEN getTokenBegin(c) ELSE getRequestSignBegin(c)

\* getDeviceInfo lines 158-165, up to its first await
getDeviceInfo(r, deviceId) ==
    LET c == [r EXCEPT !.method = "GET",
                       !.uri = <<"/v1.0/devices/", deviceId>>,
                       !.body = NoBody,
                       !.hadTok = (token # NoToken)]
    IN  IF NeedsToken(token) THEN getTokenBegin(c) ELSE getRequestSignBegin(c)

\* the caller goes on whether getToken resolved or rejected
AfterGetToken_IgnoreRejection(op, rejected) ==
    IF op = "startServer" THEN "ss_resume"
    ELSE IF op \in DeviceOps THEN "cd_resume"
    ELSE "done"

\* where the caller of getToken goes on when getToken settles
AfterGetToken(op, rejected) ==
    IF rejected THEN "done"
    ELSE IF op = "startServer" THEN "ss_resume"
    ELSE IF op \in DeviceOps THEN "cd_resume"
    ELSE "done"

(* ------------------------------ actions -------------------------------- *)

\* invocation r goes on as r2
Step(r, r2) == inv' = (inv (-) Only(r)) (+) Only(r2)

\* the event loop runs a callback (a route handler for a request, or the
\* timer's): at most MaxInv callbacks are in flight, and the bag keeps the
\* latest MaxInv of them
Admit(new) ==
    /\ phase = "listening"
    /\ BagCardinality(CallbacksInFlight) < MaxInv
    /\ IF BagCardinality(Callbacks) < MaxInv
       THEN inv' = inv (+) Only(new)
       ELSE \E d \in Invs :
              /\ IsCallback(d) /\ d.pc = "done"
              /\ Step(d, new)

Init ==
    /\ config \in Configs
    /\ token = NoToken
    /\ phase = "boot"
    /\ inv = EmptyBag

\* startServer lines 533-544: validate, then start the initial getToken
StartServer ==
    /\ phase = "boot"
    /\ IF ~validateConfig(config)
       THEN /\ phase' = "exited"
            /\ inv' = inv
       ELSE /\ phase' = "starting"
            /\ inv' = inv (+) Only(getTokenBegin([New EXCEPT !.op = "startServer"]))
    /\ UNCHANGED <<config, token>>

\* startServer lines 545-562: the initial getToken resolved, app.listen
StartListen(r) ==
    /\ Alive
    /\ r.pc = "ss_resume"
    /\ phase' = "listening"
    /\ Step(r, Finish(r, "ok"))
    /\ UNCHANGED <<config, token>>

\* the setInterval callback, lines 570-572: a tick starts getToken.  The
\* period is 2 hours and a call times out after 10 seconds, so the previous
\* tick's getToken has settled
TimerTick ==
    /\ \A r \in Invs : IsTimer(r) => r.pc = "done"
    /\ Admit(getTokenBegin([New EXCEPT !.op = "timer"]))
    /\ UNCHANGED <<config, token, phase>>

\* POST /token/refresh, lines 311-313
RouteTokenRefresh ==
    /\ Admit(getTokenBegin([New EXCEPT !.op = "refresh"]))
    /\ UNCHANGED <<config, token, phase>>

\* GET /device/info, lines 274-276
RouteDeviceInfo ==
    /\ Admit(getDeviceInfo([New EXCEPT !.op = "info"], config.deviceId))
    /\ UNCHANGED <<config, token, phase>>

\* POST /device/brightness, lines 369-388; the values are integers, on which
\* Math.round changes nothing
RouteBrightness(b) ==
    /\ LET r == [New EXCEPT !.op = "brightness", !.input = BrightnessInput(b)]
       IN  IF BrightnessRejected(b)
           THEN Admit(Finish(r, "rejected"))
           ELSE Admit(controlDevice(r, config.deviceId, "bright_value_v2", <<b.value>>))
    /\ UNCHANGED <<config, token, phase>>

\* POST /device/color/hsv, lines 328-351
RouteColorHsv(c) ==
    /\ LET r == [New EXCEPT !.op = "hsv", !.input = HsvInput(c.h, c.s, c.v)]
       IN  IF HsvRejected(c.h, c.s, c.v)
           THEN Admit(Finish(r, "rejected"))
           ELSE Admit(controlDevice([r EXCEPT !.arg = HsvValue(c)],
                                    config.deviceId, "colour_data_v2", HsvValue(c)))
    /\ UNCHANGED <<config, token, phase>>

\* POST /device/color/preset, lines 480-504
RouteColorPreset(color) ==
    /\ LET r == [New EXCEPT !.op = "preset",
                            !.input = IF color = "" THEN "missing"
                                      ELSE IF toLowerCase(color) \in DOMAIN presetColors
                                      THEN "inrange" ELSE "outside"]
       IN  IF PresetRejected(color)
           THEN Admit(Finish(r, "rejected"))
           ELSE Admit(controlDevice([r EXCEPT !.arg = color],
                                    config.deviceId, "colour_data_v2", colorData(color)))
    /\ UNCHANGED <<config, token, phase>>

\* getRequestSign called on its own with a path uri?pathQuery and a query
\* object, lines 90-110; the headers are those of the latest call
SignCall(method, pathQuery, query, body) ==
    /\ \A r \in Invs : r.pc # "rs_hmac"
    /\ inv' = Only(getRequestSignBegin(
                 [New EXCEPT !.op = "sign", !.method = method, !.uri = <<"/x">>,
                             !.pathQuery = pathQuery, !.query = query,
                             !.body = body]))
    /\ UNCHANGED <<config, token, phase>>

\* getRequestSign lines 110-113: encryptStr resolved, the headers are returned
SignReturn(r) ==
    /\ r.op = "sign"
    /\ r.pc = "rs_hmac"
    /\ Step(r, [r EXCEPT !.pc = "signed", !.hdrTok = token])
    /\ UNCHANGED <<config, token, phase>>

\* getToken lines 66-69: encryptStr resolved, the GET to /v1.0/token is issued
GetTokenSend(r) ==
    /\ Alive
    /\ r.pc = "gt_hmac"
    /\ Step(r, [r EXCEPT !.pc = "gt_wait", !.nTok = @ + 1])
    /\ UNCHANGED <<config, token, phase>>

\* the invocation after its getToken (lines 69-81) has handled the reply
GetTokenSettled(r, login) ==
    LET to == AfterGetToken(r.op, getTokenRejects(login))
        s  == [r EXCEPT !.pc = to,
                        !.gt = IF LoginOk(login) THEN "ok" ELSE "failed",
                        !.over = /\ r.op \in TokenOps /\ LoginOk(login)
                                 /\ r.t0 \notin {Late, token},
                        !.t0 = NoToken]
    IN  IF to # "done" THEN s
        ELSE Finish(s, IF getTokenRejects(login) THEN "error" ELSE "ok")

\* getToken lines 69-81 and what its caller does when it settles: startServer
\* exits on a rejection (lines 563-566), the timer logs it (574-576), a route
\* answers 500, controlDevice / getDeviceInfo rethrow it (150-153, 179-182)
GetTokenReply(r, login) ==
    /\ Alive
    /\ r.pc = "gt_wait"
    /\ token' = TokenAfterLogin(token, login)
    /\ phase' = IF ProcessExits(r.op, getTokenRejects(login))
                THEN "exited" ELSE phase
    /\ Step(r, GetTokenSettled(r, login))
    /\ UNCHANGED config

\* An await of controlDevice / getDeviceInfo resolved.
\* At "cd_resume" (line 121 / 160, await getToken()): getRequestSign is
\* entered (line 135 / 165) and runs up to its await.
\* At "rs_hmac" (getRequestSign lines 110-113, encryptStr resolved): the rest
\* of the object literal is evaluated and access_token reads token; then
\* lines 137-143 / 167-172 issue the device call with these headers (the
\* await in between reads and writes no shared state).
DeviceResume(r) ==
    /\ Alive
    /\ r.pc \in {"cd_resume", "rs_hmac"}
    /\ Step(r, IF r.pc = "cd_resume"
               THEN getRequestSignBegin(r)
               ELSE [r EXCEPT !.pc = "cd_wait", !.hdrTok = token, !.nDev = @ + 1])
    /\ UNCHANGED <<config, token, phase>>

\* controlDevice lines 145-153 / getDeviceInfo lines 174-182 and the route's
\* answer: 200 with the envelope, or 500
DeviceReplyArrives(r, data) ==
    /\ Alive
    /\ r.pc = "cd_wait"
    /\ Step(r, [Finish(r, IF DeviceOk(data) THEN "ok" ELSE "error")
                  EXCEPT !.answer = data])
    /\ UNCHANGED <<config, token, phase>>

\* the steps every invocation shares
Continue ==
    \/ \E r \in Invs : GetTokenSend(r)
    \/ \E r \in Invs, login \in LoginReplies : GetTokenReply(r, login)
    \/ \E r \in Invs : DeviceResume(r)
    \/ \E r \in Invs, data \in DeviceReplies : DeviceReplyArrives(r, data)

\* one caller of each operation: getToken, getDeviceInfo, controlDevice
Callers ==
    \/ RouteTokenRefresh
    \/ RouteDeviceInfo
    \/ \E b \in BrightnessInputs : RouteBrightness(b)

\* the program, node servidor-tuya-express.js, with the routes /token/refresh,
\* /device/info, /device/brightness and /device/color/hsv
Next ==
    \/ StartServer
    \/ \E r \in Invs : StartListen(r)
    \/ TimerTick
    \/ Callers
    \/ \E c \in HsvInputs : RouteColorHsv(c)
    \/ Continue

Spec == Init /\ [][Next]_vars

\* the session manager and the device gateway on their own: the module is
\* loaded with valid credentials, token is '' (line 45), and getToken,
\* getDeviceInfo and controlDevice are called through their handlers in any
\* order, also before any token was obtained
InitGateway ==
    /\ config = [accessKey |-> "AK", secretKey |-> "SK", deviceId |-> "dev"]
    /\ token = NoToken
    /\ phase = "listening"
    /\ inv = EmptyBag

NextGateway == Callers \/ Continue

SpecGateway == InitGateway /\ [][NextGateway]_vars

\* the two colour routes, called in any order while a token is held
InitColour ==
    /\ config = [accessKey |-> "AK", secretKey |-> "SK", deviceId |-> "dev"]
    /\ token \in Tokens
    /\ phase = "listening"
    /\ inv = EmptyBag

NextColour ==
    \/ \E c \in PresetHsvInputs : RouteColorHsv(c)
    \/ \E color \in ColorInputs : RouteColorPreset(color)
    \/ \E r \in Invs : DeviceResume(r)
    \/ \E r \in Invs, data \in DeviceReplies : DeviceReplyArrives(r, data)

SpecColour == InitColour /\ [][NextColour]_vars

\* the signer as a function: getRequestSign applied to any path, query and
\* body while a token is held
InitSigner ==
    /\ config = [accessKey |-> "AK", secretKey |-> "SK", deviceId |-> "dev"]
    /\ token \in Tokens
    /\ phase = "listening"
    /\ inv = EmptyBag

NextSigner ==
    \/ \E method \in {"GET", "POST"}, pathQuery \in PathQueries, query \in Queries,
          body \in {NoBody, [code |-> "switch_led", value |-> <<1>>]} :
            SignCall(method, pathQuery, query, body)
    \/ \E r \in Invs : SignReturn(r)

SpecSigner == InitSigner /\ [][NextSigner]_vars

(* ------------------------------ properties ----------------------------- *)

\* invocation r takes a step of its own
OwnStep(r) ==
    \/ GetTokenSend(r)
    \/ \E login \in LoginReplies : GetTokenReply(r, login)
    \/ DeviceResume(r)
    \/ \E data \in DeviceReplies : DeviceReplyArrives(r, data)

\* the program left to its timer, with device requests coming in.  The
\* interval timer fires whatever else is going on (SF), pending
\* continuations are run, those of the timer's callback in particular (WF:
\* a call is answered or times out after 10 s), and the provider answers a
\* timer-driven exchange with a success envelope again and again (SF).
NextRefresh ==
    \/ StartServer
    \/ \E r \in Invs : StartListen(r)
    \/ TimerTick
    \/ RouteDeviceInfo
    \/ Continue

TimerContinues == \E r \in Invs : IsTimer(r) /\ OwnStep(r)

TimerExchangeSucceeds ==
    \E r \in Invs, login \in LoginReplies :
        IsTimer(r) /\ LoginOk(login) /\ GetTokenReply(r, login)

SpecRefresh ==
    /\ Init /\ [][NextRefresh]_vars
    /\ SF_vars(TimerTick)
    /\ WF_vars(Continue)
    /\ WF_vars(TimerContinues)
    /\ SF_vars(TimerExchangeSucceeds)

\* the reply is a success envelope / anything else
IsSuccessEnvelope(reply) == reply.net /\ reply.has /\ reply.success
IsFailure(reply) == ~reply.net \/ ~reply.has \/ ~reply.success

\* Invocation r was answered without signing and without any outbound
\* call: it has ended rejected, computed no signature, issued no call to
\* /v1.0/token or /v1.0/devices, and never entered getToken, the one place
\* that assigns token.
Quiet(r) ==
    /\ r.pc = "done" /\ r.result = "rejected"
    /\ r.nSign = 0 /\ r.nTok = 0 /\ r.nDev = 0
    /\ r.gt = ""

\* C1: for every device call that has been issued, the access_token header
\* carries the very token that was concatenated into the payload its sign
\* header was computed over.
C1_HeaderTokenIsSignedToken ==
    \A r \in Invs : \A t \in Times :
        r.pc = "cd_wait" =>
            LET h == RequestHeaders(config, r, t)
            IN  h.access_token = PayloadToken(h.sign[3])

\* C2: an invocation of controlDevice / getDeviceInfo that was entered while
\* a token was held never runs getToken: it issues no call to /v1.0/token,
\* none of its steps changes token, and the one call it issues is the device
\* call.
C2_EnsureTokenIsNoOp ==
    [][ /\ \A r \in Invs : (r.hadTok /\ OwnStep(r)) => token' = token
        /\ \A r \in BagToSet(inv') :
             (r.op \in DeviceOps /\ r.hadTok) =>
                 /\ r.nTok = 0 /\ r.gt = ""
                 /\ r.pc \in {"rs_hmac", "cd_wait", "done"}
                 /\ (r.pc \in {"cd_wait", "done"} => r.nDev = 1) ]_vars

C2_Witness ==
    \E r \in Invs :
        /\ r.op \in DeviceOps /\ r.hadTok /\ r.pc = "done"
        /\ r.result = "ok" /\ r.nTok = 0 /\ r.nDev = 1

\* C3: every getToken (startServer, timer tick, /token/refresh), whether or
\* not a token is held, has issued exactly one GET to /v1.0/token when the
\* reply is handled, and on a success envelope token becomes the returned
\* access_token.
C3_RefreshIsUnconditional ==
    [][ /\ \A r \in Invs : \A login \in LoginReplies :
             GetTokenReply(r, login) =>
                 /\ r.nTok = 1
                 /\ IsSuccessEnvelope(login) => token' = login.access_token
        /\ \A r \in BagToSet(inv') :
             r.op \in {"startServer", "timer", "refresh"} =>
                 /\ r.gt \in {"pending", "ok", "failed"}
                 /\ r.nTok = (IF r.pc = "gt_hmac" THEN 0 ELSE 1) ]_vars

C3_Witness ==
    \E r \in Invs, q \in Invs :
        /\ r.op = "startServer" /\ r.gt = "ok" /\ r.nTok = 1
        /\ q.op \in {"timer", "refresh"} /\ q.gt = "ok" /\ q.nTok = 1
        /\ token # NoToken

\* C4: the step in which a getToken fails (transport error, success=false or
\* no envelope) leaves token as it was; when the failing getToken is the
\* timer's, the process goes on listening and the invocation ends there.
C4_FailedExchangeChangesNothing ==
    [][ \A r \in Invs : \A login \in LoginReplies :
            (GetTokenReply(r, login) /\ IsFailure(login)) =>
                /\ token' = token
                /\ r.op = "timer" =>
                     /\ phase' = "listening"
                     /\ \E d \in BagToSet(inv') :
                          d.op = "timer" /\ d.pc = "done" /\ d.gt = "failed" ]_vars

C4_Witness ==
    /\ phase = "listening"
    /\ token # NoToken
    /\ \E r \in Invs : r.op = "timer" /\ r.pc = "done" /\ r.gt = "failed"
    /\ \E r \in Invs : r.op \in DeviceOps /\ r.pc = "cd_wait" /\ r.hdrTok = token

\* C5: with accessKey, secretKey or deviceId missing the process never gets
\* past startServer: it is at boot or has exited, and no invocation (hence
\* no call to /v1.0/token or /v1.0/devices) ever exists.
C5_MissingConfigIsFatal ==
    (config.accessKey = "" \/ config.secretKey = "" \/ config.deviceId = "") =>
        /\ phase \in {"boot", "exited"}
        /\ inv = EmptyBag

C5_Witness ==
    /\ config.accessKey # "" /\ config.secretKey # "" /\ config.deviceId = ""
    /\ phase = "exited"
    /\ inv = EmptyBag

\* C6: a /device/brightness request whose value is below 10 or above 1000 is
\* answered without signing and without any outbound call, and its handling
\* never assigns token, whether or not a token is held.
C6_BadBrightnessIsQuiet ==
    \A r \in Invs : (r.op = "brightness" /\ r.input = "outside") => Quiet(r)

C6_Witness ==
    /\ token = NoToken
    /\ \E r \in Invs : r.op = "brightness" /\ r.input = "outside" /\ Quiet(r)
    /\ \E r \in Invs : r.op = "info" /\ r.pc = "gt_wait"

\* C7: a /device/color/hsv request with a component missing, or with h
\* outside 0..360, s outside 0..1000 or v outside 0..1000, is answered
\* without computing a signature and without any outbound call.
C7_BadHsvIsQuiet ==
    \A r \in Invs :
        (r.op = "hsv" /\ r.input \in {"outside", "missing"}) => Quiet(r)

C7_Witness ==
    /\ token # NoToken
    /\ \E r \in Invs : r.op = "hsv" /\ r.input = "outside" /\ Quiet(r)
    /\ \E r \in Invs : r.op = "hsv" /\ r.input = "missing" /\ Quiet(r)

\* C8: a device operation whose call was answered ends "ok" (the envelope
\* is returned) only on a success envelope; answered with success=false or
\* with no envelope it ends in error.
C8_EnvelopeDecides ==
    \A r \in Invs :
        (r.op \in DeviceOps /\ r.pc = "done" /\ r.nDev = 1) =>
            /\ r.result = "ok" => IsSuccessEnvelope(r.answer)
            /\ (r.answer.net /\ (~r.answer.has \/ ~r.answer.success))
                   => r.result = "error"

C8_Witness ==
    /\ \E r \in Invs :
         /\ r.op = "brightness" /\ r.pc = "done" /\ r.nDev = 1
         /\ r.answer.net /\ r.answer.has /\ ~r.answer.success
         /\ r.result = "error"
    /\ \E r \in Invs :
         /\ r.op = "info" /\ r.pc = "done" /\ r.nDev = 1
         /\ r.answer.net /\ ~r.answer.has
         /\ r.result = "error"

\* C9: an invocation issues at most one call to /v1.0/token and at most one
\* device call; once its getToken has failed, or its device call was not
\* answered by a success envelope, it has ended in error, a failed getToken
\* is followed by no device call, and an invocation that has ended takes no
\* further step.
C9_NoRetry ==
    [][ /\ \A r \in BagToSet(inv') :
             /\ r.nTok <= 1 /\ r.nDev <= 1
             /\ r.gt = "failed" =>
                  r.pc = "done" /\ r.result = "error" /\ r.nTok = 1 /\ r.nDev = 0
             /\ (r.pc = "done" /\ r.nDev = 1 /\ IsFailure(r.answer)) =>
                  r.result = "error"
        /\ \A r \in Invs : r.pc = "done" => ~OwnStep(r) ]_vars

C9_Witness ==
    /\ \E r \in Invs :
         /\ r.op \in DeviceOps /\ r.gt = "failed" /\ r.pc = "done"
         /\ r.result = "error" /\ r.nTok = 1 /\ r.nDev = 0
    /\ \E r \in Invs :
         /\ r.op \in DeviceOps /\ r.gt = "ok" /\ r.pc = "done"
         /\ r.result = "error" /\ r.nTok = 1 /\ r.nDev = 1

\* C10: once a token is held, a token is held ever after; and token only
\* changes in the step in which a getToken handles a success envelope, to
\* the access_token of that envelope.
C10_TokenNeverLost ==
    [][ /\ token # NoToken => token' # NoToken
        /\ token' # token =>
             \E r \in Invs : \E login \in LoginReplies :
                 /\ GetTokenReply(r, login)
                 /\ IsSuccessEnvelope(login)
                 /\ token' = login.access_token ]_vars

C10_Witness ==
    /\ token # NoToken
    /\ \E r \in Invs : r.op = "refresh" /\ r.gt = "failed"
    /\ \E r \in Invs : r.op = "timer" /\ r.gt = "ok"



\* C11: after a timer-driven refresh has failed (and while no successful one
\* is on record) a later timer-driven refresh succeeds, and the step in
\* which a timer-driven getToken handles a success envelope makes its
\* access_token the held token; no /token/refresh request is involved.
C11_TimerRefreshHeals ==
    /\ ( /\ \E r \in Invs : IsTimer(r) /\ r.gt = "failed"
         /\ \A r \in Invs : IsTimer(r) => r.gt # "ok" )
       ~> ( \E r \in Invs : IsTimer(r) /\ r.gt = "ok" /\ token \in Tokens )
    /\ [][ \A r \in Invs : \A login \in LoginReplies :
              (IsTimer(r) /\ GetTokenReply(r, login) /\ IsSuccessEnvelope(login)) =>
                  token' = login.access_token ]_vars

C11_Witness ==
    /\ phase = "listening"
    /\ \E r \in Invs : IsTimer(r) /\ r.pc = "done" /\ r.gt = "failed"
    /\ \E r \in Invs : IsTimer(r) /\ r.pc = "done" /\ r.gt = "ok"

\* the device invocations that were entered with no token held and are
\* waiting for the reply to their own call to /v1.0/token
ExchangesInFlight ==
    Sub({r \in Invs : r.op \in DeviceOps /\ ~r.hadTok /\ r.pc = "gt_wait"})

\* C12: every controlDevice / getDeviceInfo entered while no token is held
\* runs a getToken of its own, whatever other exchange is in flight: it has
\* entered getToken and, once past the HMAC, issued its own call to
\* /v1.0/token.
C12_ExchangesNotDeduplicated ==
    \A r \in Invs :
        (r.op \in DeviceOps /\ r.input \notin {"missing", "outside"} /\ ~r.hadTok) =>
            /\ r.gt # ""
            /\ r.nTok = (IF r.pc = "gt_hmac" THEN 0 ELSE 1)

C12_Witness ==
    /\ token = NoToken
    /\ BagCardinality(ExchangesInFlight) >= 2

\* C13: whatever token is held (none, the current one, one that has been
\* replaced since), the headers getToken builds for a timestamp carry the
\* HMAC of accessKey, timestamp, stringToSign and nothing else, so they are
\* the same before and after every step, those that assign token included.
C13_TokenSignIgnoresToken ==
    [][ \A t \in Times :
          /\ TokenHeaders(config, t).sign =
                 encryptStr(<<config.accessKey, t,
                              <<"GET", Sha256(""), "", "/v1.0/token?grant_type=1">>>>,
                            config.secretKey)
          /\ TokenHeaders(config, t)' = TokenHeaders(config, t) ]_vars

C13_Witness ==
    \E r \in Invs : \E q \in Invs :
        /\ r.op = "startServer" /\ r.gt = "ok"
        /\ q.op \in {"timer", "refresh"} /\ q.pc = "gt_wait"
        /\ q.t0 \in Tokens /\ token \in Tokens /\ token # q.t0

\* the keys that occur in the query string of a path
PathKeys(pathQuery) == {pathQuery[i][1] : i \in DOMAIN pathQuery}

\* C14: when a key is both in the query argument and in the query string of
\* the path, the canonical path getRequestSign builds carries that key with
\* the value of the query argument.
C14_ExplicitQueryWins ==
    \A r \in Invs :
        r.op = "sign" =>
            \A k \in DOMAIN r.query \cap PathKeys(r.pathQuery) :
                \E i \in DOMAIN r.url[3] : r.url[3][i] = <<k, "=", r.query[k][1]>>

\* the content hash in a signed payload (the second line of stringToSign)
PayloadContentHash(signStr) == signStr[Len(signStr)][2]

\* C15: the payload signed for the GET of getDeviceInfo, whose body is
\* empty, carries the digest of the empty string, the content hash of the
\* token exchange.
C15_EmptyBodyHashesEmptyString ==
    \A r \in Invs : \A t \in Times :
        (r.op = "info" /\ r.pc = "cd_wait") =>
            LET h == RequestHeaders(config, r, t)
            IN  /\ PayloadContentHash(h.sign[3]) = Sha256("")
                /\ PayloadContentHash(h.sign[3])
                       = PayloadContentHash(TokenHeaders(config, t).sign[3])

\* pathQuery and other hold the same key=value pairs, each as many times
SamePairs(pathQuery, other) ==
    /\ Len(pathQuery) = Len(other)
    /\ \A p \in Keys \X Vals :
         Len(SelectSeq(pathQuery, LAMBDA x : x = p))
             = Len(SelectSeq(other, LAMBDA x : x = p))

\* C16: the canonical path and the signature getRequestSign returned for a
\* path are those it builds for any path with the same key=value pairs in
\* another order (same timestamp, token, method, body and query argument).
C16_QueryOrderIrrelevant ==
    \A r \in Invs : \A other \in PathQueries :
        (r.op = "sign" /\ r.pc = "signed" /\ SamePairs(r.pathQuery, other)) =>
            LET o == getRequestSignBegin([r EXCEPT !.pathQuery = other])
            IN  /\ o.url = r.url
                /\ \A t \in Times :
                     RequestHeaders(config, [o EXCEPT !.hdrTok = r.hdrTok], t).sign
                         = RequestHeaders(config, r, t).sign

\* C17: a preset request and an HSV request with the values of that preset,
\* at the same point of controlDevice under the same token, carry the same
\* method, path and body (colour_data_v2 with these h, s, v) and, for the
\* same timestamp, the same headers; and red is h 0, s 1000, v 1000.
C17_PresetIsHsv ==
    \A r \in Invs : \A q \in Invs :
        ( /\ r.op = "preset" /\ q.op = "hsv"
          /\ r.pc \in {"rs_hmac", "cd_wait"} /\ q.pc = r.pc
          /\ r.signTok = q.signTok /\ r.hdrTok = q.hdrTok
          /\ LET d == presetColors[toLowerCase(r.arg)]
             IN  q.arg = <<d.h, d.s, d.v>> ) =>
            /\ r.method = q.method /\ r.url = q.url
            /\ r.body = q.body
            /\ r.body.code = "colour_data_v2" /\ r.body.value = q.arg
            /\ toLowerCase(r.arg) = "red" => r.body.value = <<0, 1000, 1000>>
            /\ \A t \in Times :
                 RequestHeaders(config, r, t) = RequestHeaders(config, q, t)

C17_Witness ==
    \E r \in Invs : \E q \in Invs :
        /\ r.op = "preset" /\ r.arg = "pink" /\ r.pc = "cd_wait" /\ r.nDev = 1
        /\ q.op = "hsv" /\ q.arg = <<330, 700, 1000>> /\ q.pc = "cd_wait" /\ q.nDev = 1
        /\ r.hdrTok = q.hdrTok

\* C18: in the step that issues a device call, the access_token header is
\* the token held, and a token is held; token is only ever assigned the
\* access_token of a success envelope, by the getToken that handles it; and
\* an invocation whose getToken failed ends there, without a device call.
C18_NoCallWithoutToken ==
    [][ /\ \A r \in Invs :
             (r.pc = "rs_hmac" /\ DeviceResume(r)) =>
                 \E d \in BagToSet(inv') :
                     /\ d.pc = "cd_wait" /\ d.nDev = 1 /\ d.gt # "failed"
                     /\ \A t \in Times :
                          /\ RequestHeaders(config, d, t).access_token = token
                          /\ RequestHeaders(config, d, t).access_token \in Tokens
        /\ token' # token =>
             \E r \in Invs : \E login \in LoginReplies :
                 /\ GetTokenReply(r, login) /\ LoginOk(login)
                 /\ token' = login.access_token /\ token' \in Tokens
        /\ \A r \in BagToSet(inv') :
             r.gt = "failed" => r.nDev = 0 /\ r.pc = "done" ]_vars

C18_Witness ==
    /\ \E r \in Invs :
         /\ r.op \in DeviceOps /\ ~r.hadTok /\ r.gt = "ok"
         /\ r.pc = "cd_wait" /\ r.hdrTok \in Tokens
    /\ \E r \in Invs :
         r.op \in DeviceOps /\ ~r.hadTok /\ r.gt = "failed" /\ r.nDev = 0

\* C19: the process listens only once the initial getToken has succeeded
\* and a token is held; when the initial getToken fails it has exited and no
\* callback has ever run; and a request that came in through a route found
\* a token and started no getToken from the no-token check.
C19_ListenAfterToken ==
    /\ phase = "listening" =>
          /\ token # NoToken
          /\ \E r \in Invs : r.op = "startServer" /\ r.gt = "ok" /\ r.pc = "done"
    /\ \A r \in Invs : (r.op = "startServer" /\ r.gt = "failed") => phase = "exited"
    /\ phase # "listening" => Callbacks = EmptyBag
    /\ \A r \in Invs :
          (r.op \in DeviceOps /\ r.result # "rejected") =>
              r.hadTok /\ r.gt = "" /\ r.nTok = 0

C19_Witness ==
    /\ phase = "listening"
    /\ \E r \in Invs : r.op = "info" /\ r.hadTok /\ r.pc = "done" /\ r.nDev = 1
    /\ \E r \in Invs : r.op = "brightness" /\ r.hadTok /\ r.pc = "cd_wait"

\* C20: whenever a getToken handles a success envelope, token becomes the
\* access_token of that envelope, whatever token is held at that moment; in
\* particular when token was replaced, since this getToken started with no
\* other in flight, by an exchange that started after it.
C20_LastResponseWins ==
    [][ \A r \in Invs : \A login \in LoginReplies :
            (GetTokenReply(r, login) /\ IsSuccessEnvelope(login)) =>
                /\ token' = login.access_token
                /\ \E d \in BagToSet(inv') :
                     /\ d.op = r.op /\ d.gt = "ok"
                     /\ d.over = (r.op \in TokenOps /\ r.t0 \notin {Late, token}) ]_vars

C20_Witness ==
    \E r \in Invs : \E q \in Invs :
        /\ r.op = "timer" /\ r.gt = "ok" /\ r.over
        /\ q.op = "refresh" /\ q.gt = "ok" /\ ~q.over

=============================================================================
